---- MODULE Spec2Model ----
(***************************************************************************)
(* Model of backend/main.py: the /api/execute retry loop (execute_prompt), *)
(* the code generator (generate_python_code), the fence stripper           *)
(* (clean_generated_code) and the runner (execute_python_code).            *)
(*                                                                         *)
(* Text is a sequence of tokens.  The fence stripper works on sequences of *)
(* one-character tokens; messages that the program only concatenates and   *)
(* never inspects are single opaque tokens.  execution_time (wall clock)   *)
(* is not modelled.                                                        *)
(*                                                                         *)
(* A request moves through execute_prompt one statement group at a time:   *)
(* loop -> gen -> exec_create -> exec_run -> exec_unlink -> check -> loop  *)
(* or done.  Requests served by different worker processes share only the  *)
(* temporary directory; SpecConc interleaves two of them at every step.    *)
(* str(e) of the HTTPException is taken as Starlette prints it,            *)
(* "<status_code>: <detail>".                                              *)
(***************************************************************************)
EXTENDS Integers, Sequences, FiniteSets, TLC

(***************************************************************************)
(* Bounds of the model.                                                    *)
(***************************************************************************)
\* largest max_attempts a single request is received with
MaxAttempts == 3
\* largest max_attempts of the requests that run side by side
ConcAttempts == 1
\* number of distinct temporary-file names of the temporary directory
NumNames == 2
\* largest number of pieces a text handed to the fence stripper is made of
MaxPieces == 5

\* the slots of the requests: one request, or two simultaneous requests
Requests == {1, 2}
Names == 1..NumNames

(***************************************************************************)
(* Python's None, and a local name that is not bound yet.                  *)
(***************************************************************************)
None == <<"<None>">>

\* str.format of a value inside an f-string: None prints as the word None
FormatValue(v) == IF v = None THEN <<"N", "o", "n", "e">> ELSE v

\* truthiness of an Optional[str]
Truthy(v) == v # None /\ v # <<>>

(***************************************************************************)
(* String primitives used by clean_generated_code.                         *)
(***************************************************************************)
Whitespace == {" ", "\n", "\t"}

RECURSIVE lstrip(_)
lstrip(s) ==
    IF s # <<>> /\ Head(s) \in Whitespace THEN lstrip(Tail(s)) ELSE s

RECURSIVE rstrip(_)
rstrip(s) ==
    IF s # <<>> /\ s[Len(s)] \in Whitespace
    THEN rstrip(SubSeq(s, 1, Len(s) - 1))
    ELSE s

strip(s) == rstrip(lstrip(s))

startswith(s, p) == Len(s) >= Len(p) /\ SubSeq(s, 1, Len(p)) = p

\* index of the leftmost occurrence of pat in s, 0 when there is none
find(s, pat) ==
    LET hits == {i \in 1..(Len(s) - Len(pat) + 1) :
                     SubSeq(s, i, i + Len(pat) - 1) = pat}
    IN IF hits = {} THEN 0 ELSE CHOOSE i \in hits : \A j \in hits : i <= j

contains(s, pat) == find(s, pat) # 0

\* str.split(sep): leftmost, non-overlapping occurrences of sep
RECURSIVE split(_, _)
split(s, sep) ==
    LET i == find(s, sep)
    IN IF i = 0
       THEN <<s>>
       ELSE <<SubSeq(s, 1, i - 1)>> \o split(SubSeq(s, i + Len(sep), Len(s)), sep)

\* str.replace(old, ""): leftmost, non-overlapping occurrences of old removed
RECURSIVE replace(_, _)
replace(s, old) ==
    LET i == find(s, old)
    IN IF i = 0
       THEN s
       ELSE SubSeq(s, 1, i - 1) \o replace(SubSeq(s, i + Len(old), Len(s)), old)

\* str.splitlines(): lines without their terminators, no empty last line
splitlines(s) ==
    LET ps == split(s, <<"\n">>)
    IN IF ps[Len(ps)] = <<>> THEN SubSeq(ps, 1, Len(ps) - 1) ELSE ps

\* "\n".join(lines)
RECURSIVE join(_)
join(lines) ==
    IF lines = <<>> THEN <<>>
    ELSE IF Len(lines) = 1 THEN lines[1]
    ELSE lines[1] \o <<"\n">> \o join(Tail(lines))

lowerChar(c) ==
    CASE c = "P" -> "p"
      [] c = "Y" -> "y"
      [] OTHER -> c

lower(s) == [i \in 1..Len(s) |-> lowerChar(s[i])]

\* the backquote character is written "^" here
BACKQUOTE == "^"
FENCE == <<BACKQUOTE, BACKQUOTE, BACKQUOTE>>
FENCE_PYTHON == FENCE \o <<"p", "y", "t", "h", "o", "n">>
TAG_PYTHON == <<"p", "y", "t", "h", "o", "n">>
TAG_PY == <<"p", "y">>

\* the body of the for loop for one fenced block: the cleaned code of it
cleanBlock(block) ==
    LET lines0 == splitlines(block)
        first == IF lines0 = <<>> THEN <<>> ELSE lower(strip(lines0[1]))
        lines == IF lines0 # <<>>
                    /\ (startswith(first, TAG_PYTHON) \/ startswith(first, TAG_PY))
                 THEN Tail(lines0)
                 ELSE lines0
    IN strip(join(lines))

\* the fallback that removes the word python wherever it stands
stripMarkers_TagAnywhere(txt) == strip(replace(replace(txt, TAG_PYTHON), FENCE))

\* the fallback of both branches: markers removed from the whole text
stripMarkers(txt) == strip(replace(replace(txt, FENCE_PYTHON), FENCE))

\* the loop over every part instead of every second one
RECURSIVE firstBlock_EveryPart(_, _)
firstBlock_EveryPart(parts, i) ==
    IF i > Len(parts) THEN None
    ELSE IF cleanBlock(parts[i]) # <<>> THEN cleanBlock(parts[i])
    ELSE firstBlock_EveryPart(parts, i + 1)

\* for i in range(1, len(parts), 2): the first non-empty cleaned block
RECURSIVE firstBlock(_, _)
firstBlock(parts, i) ==
    IF i > Len(parts) THEN None
    ELSE IF cleanBlock(parts[i]) # <<>> THEN cleanBlock(parts[i])
    ELSE firstBlock(parts, i + 2)

clean_generated_code(text) ==
    LET txt == strip(text)
    IN IF contains(txt, FENCE)
       THEN LET code == firstBlock(split(txt, FENCE), 2)
            IN IF code # None THEN code ELSE stripMarkers(txt)
       ELSE stripMarkers(txt)

(***************************************************************************)
(* Values the environment supplies.                                        *)
(***************************************************************************)
\* task descriptions of the requests
Prompts == {<<"task">>}

\* response.text of the generation service (None: a response without text)
ResponseTexts ==
    { None,
      <<>>,
      <<"x">>,
      FENCE \o <<"p", "y", "\n", "x", "\n">> \o FENCE,
      FENCE \o FENCE }

\* messages of the exceptions model.generate_content / response.text raise
ServiceErrors == {<<"quota">>}

\* what a child process that ran to its end can have printed
Stdouts == {<<>>, <<"O1">>}
Stderrs == {<<>>, <<"E1">>}

\* the environment of a single request, and the smaller one of the requests
\* that run side by side
FullEnv == [texts |-> ResponseTexts, stdouts |-> Stdouts, stderrs |-> Stderrs]
ConcEnv == [texts |-> {<<"x">>}, stdouts |-> {<<"O1">>}, stderrs |-> {<<"E1">>}]

\* messages of the OSErrors of tempfile, subprocess and os.unlink
CreateErrors == {<<"ENOSPC">>}
LaunchErrors == {<<"ENOENT">>}
UnlinkErrors == {<<"EPERM">>}

\* a name of the temporary directory that holds no file
Absent == [owner |-> 0, content |-> <<>>]

NoFile == 0

\* result of `python <file>` when the child ran to its end within the
\* timeout: an empty script exits with 0 and prints nothing, a missing
\* script makes the interpreter exit with 2, any other script can exit with
\* 0 or 1 and print anything
ChildResults(file, e) ==
    IF file = Absent
    THEN {[returncode |-> 2, stdout |-> <<>>, stderr |-> <<"can't open file">>]}
    ELSE IF file.content = <<>>
    THEN {[returncode |-> 0, stdout |-> <<>>, stderr |-> <<>>]}
    ELSE [returncode : {0, 1}, stdout : e.stdouts, stderr : e.stderrs]

(***************************************************************************)
(* generate_python_code                                                    *)
(***************************************************************************)
NoKeyMessage == <<"Gemini API key not configured">>

full_prompt(prompt, previous_error) ==
    <<"\nGenerate Python code for the following task: ">> \o prompt
        \o <<"\n\nRequirements: ...\n">>
        \o (IF Truthy(previous_error)
            THEN <<"\n\nPrevious error encountered: ">> \o previous_error
                     \o <<"\nPlease fix it.">>
            ELSE <<>>)

\* raw = response.text or ""
rawText(text) == IF text = None \/ text = <<>> THEN <<>> ELSE text

\* the HTTPException generate_python_code raises for an exception message
GenerationException(msg) ==
    [class |-> "HTTPException", status_code |-> "500",
     detail |-> <<"Failed to generate code: ">> \o msg]

\* an exception of the standard library with its message
LibraryException(cls, msg) == [class |-> cls, status_code |-> "", detail |-> msg]

\* the classes that derive from Exception
ExceptionClasses == {"HTTPException", "OSError", "TimeoutExpired"}

\* str(e): "<status_code>: <detail>" for an HTTPException, else the message
str_e(e) ==
    IF e.class = "HTTPException"
    THEN <<e.status_code, ": ">> \o e.detail
    ELSE e.detail

(***************************************************************************)
(* execute_python_code                                                     *)
(***************************************************************************)
\* a file name chosen without regard to the files that exist
FreshNames_AnyName(files) == Names

\* names NamedTemporaryFile can give a new file: those not in use (O_EXCL)
FreshNames(files) == {n \in Names : files[n] = Absent}

CompletedOutcome(result) ==
    [success |-> (result.returncode = 0),
     stdout |-> result.stdout,
     stderr |-> result.stderr,
     returncode |-> result.returncode]

\* the timeout outcome with the return code of a normal end
TimeoutOutcome_ZeroCode ==
    [success |-> FALSE,
     stdout |-> <<>>,
     stderr |-> <<"Execution timed out after 30 seconds">>,
     returncode |-> 0]

TimeoutOutcome ==
    [success |-> FALSE,
     stdout |-> <<>>,
     stderr |-> <<"Execution timed out after 30 seconds">>,
     returncode |-> -1]

ErrorOutcome(msg) ==
    [success |-> FALSE,
     stdout |-> <<>>,
     stderr |-> <<"Execution error: ">> \o msg,
     returncode |-> -1]

NoOutcome == [success |-> FALSE, stdout |-> <<>>, stderr |-> <<>>, returncode |-> 0]

\* what execute_python_code does with an exception of its try block: the
\* outcome one of its except clauses returns, or Escapes when none matches
Escapes == [success |-> FALSE, stdout |-> <<>>, stderr |-> <<"<escapes>">>,
            returncode |-> 0]

\* the runner without its except Exception clause
RunnerHandler_TimeoutOnly(e) ==
    IF e.class = "TimeoutExpired" THEN TimeoutOutcome ELSE Escapes

RunnerHandler(e) ==
    IF e.class = "TimeoutExpired" THEN TimeoutOutcome
    ELSE IF e.class \in ExceptionClasses THEN ErrorOutcome(str_e(e))
    ELSE Escapes

(***************************************************************************)
(* execute_prompt                                                          *)
(***************************************************************************)
\* the loop condition with an off-by-one bound
LoopCond_Inclusive(attempts_, max_attempts) == attempts_ <= max_attempts

\* a loop that runs its body once before it tests
LoopCond_AtLeastOnce(attempts_, max_attempts) ==
    attempts_ = 0 \/ attempts_ < max_attempts

\* while attempts < max_attempts
LoopCond(attempts_, max_attempts) == attempts_ < max_attempts

\* the next prompt built on the prompt of the attempt that failed
NextPrompt_Accumulating(request_prompt, current_prompt_, previous_error_) ==
    current_prompt_ \o <<"\n\nError from previous attempt: ">>
        \o FormatValue(previous_error_)

\* current_prompt = f"{request.prompt}\n\nError from previous attempt: ..."
NextPrompt(request_prompt, current_prompt_, previous_error_) ==
    request_prompt \o <<"\n\nError from previous attempt: ">>
        \o FormatValue(previous_error_)

\* an except clause that takes the errors of the operating system only
Caught_OnlyOSError(e) == e.class = "OSError"

\* except Exception as e: the exceptions the loop catches
Caught(e) == e.class \in ExceptionClasses

\* previous_error = str(e) in the except branch
HandlerError(e) == str_e(e)

\* previous_error = execution_result["stderr"] in the else branch
FailureError(execution_result_) == execution_result_.stderr

\* the success result with the wrong stream as output
SuccessResult_StderrAsOutput(generated_code_, execution_result_, attempts_) ==
    [success |-> TRUE,
     code |-> generated_code_,
     output |-> execution_result_.stderr,
     error |-> None,
     attempts |-> attempts_]

SuccessResult(generated_code_, execution_result_, attempts_) ==
    [success |-> TRUE,
     code |-> generated_code_,
     output |-> execution_result_.stdout,
     error |-> None,
     attempts |-> attempts_]

\* the failure result that never carries code
FailureResult_NoCode(generated_code_, previous_error_, attempts_, max_attempts) ==
    [success |-> FALSE,
     code |-> <<>>,
     output |-> <<>>,
     error |-> <<"Failed after ", ToString(max_attempts), " attempts. Last error: ">>
                   \o FormatValue(previous_error_),
     attempts |-> attempts_]

\* the failure result without the last error in its error text
FailureResult_NoLastError(generated_code_, previous_error_, attempts_, max_attempts) ==
    [success |-> FALSE,
     code |-> IF generated_code_ = None THEN <<>> ELSE generated_code_,
     output |-> <<>>,
     error |-> <<"Failed after ", ToString(max_attempts), " attempts.">>,
     attempts |-> attempts_]

FailureResult(generated_code_, previous_error_, attempts_, max_attempts) ==
    [success |-> FALSE,
     code |-> IF generated_code_ = None THEN <<>> ELSE generated_code_,
     output |-> <<>>,
     error |-> <<"Failed after ", ToString(max_attempts), " attempts. Last error: ">>
                   \o FormatValue(previous_error_),
     attempts |-> attempts_]

NoResult == [success |-> FALSE, code |-> <<>>, output |-> <<>>, error |-> None,
             attempts |-> -1]

(***************************************************************************)
(* State.  The locals of execute_prompt and execute_python_code are kept   *)
(* per request; files is the temporary directory all requests share.       *)
(* received, genCalls, execCalls, lastErr, lastText, lastSent, olderErrs,  *)
(* created, failure, execReturns, genReturns and lastCode are history       *)
(* variables: they record what happened and no action reads them to decide *)
(* anything.  text, cleaned and again belong to the fence stripper on its  *)
(* own.                                                                    *)
(***************************************************************************)
VARIABLES
    GEMINI_API_KEY,     \* TRUE when the credential is configured
    env,                \* what the service and the child processes can answer
    request,            \* request[r]: the PromptRequest of r
    pc,                 \* pc[r]: position of r in execute_prompt
    attempts,
    current_prompt,
    previous_error,
    generated_code,     \* None while the local is not bound
    temp_file_path,     \* NoFile while execute_python_code has no file
    result,             \* the CompletedProcess of subprocess.run
    execution_result,   \* the dict execute_python_code returned
    response,           \* the CodeExecutionResult returned to the caller
    files,              \* files[n]: the file named n, or Absent
    received,           \* the request as it arrived
    genCalls,           \* calls of generate_python_code that ended
    execCalls,          \* calls of execute_python_code started
    lastErr,            \* error text of the latest failed attempt
    lastText,           \* response.text of the latest generation call
    lastSent,           \* prompt of the latest model.generate_content call
    olderErrs,          \* error texts of the failed attempts before the latest
    created,            \* file the current attempt created, or NoFile
    failure,            \* what failed in the latest execute_python_code call
    execReturns,        \* calls of execute_python_code that returned
    genReturns,         \* calls of generate_python_code that returned
    lastCode,           \* source the latest returning generation call gave
    text,               \* a text handed to clean_generated_code
    cleaned,            \* clean_generated_code(text), None before the call
    again               \* clean_generated_code(cleaned), None before the call

vars == <<GEMINI_API_KEY, env, request, pc, attempts, current_prompt,
          previous_error, generated_code, temp_file_path, result,
          execution_result, response, files, received, genCalls, execCalls,
          lastErr, lastText, lastSent, olderErrs, created, failure,
          execReturns, genReturns, lastCode, text, cleaned, again>>

locals == <<attempts, current_prompt, previous_error, generated_code>>
runner == <<temp_file_path, result, execution_result, files, created, failure,
            execReturns>>
returns == <<genReturns, lastCode>>
history == <<genCalls, execCalls, lastErr, lastText, lastSent, olderErrs,
             returns>>
cleaner == <<text, cleaned, again>>
fixed == <<GEMINI_API_KEY, env, request, received, cleaner>>

\* lastText of a generation call that raised
Raised == <<"<raised>">>

NoProcess == [returncode |-> 0, stdout |-> <<>>, stderr |-> <<>>]

\* the state of the slots once the requests in started have arrived
InitWith(started, maxima, environment) ==
    /\ GEMINI_API_KEY \in BOOLEAN
    /\ env = environment
    /\ request \in [Requests -> [prompt : Prompts, max_attempts : maxima]]
    /\ received = request
    /\ pc = [r \in Requests |-> IF r \in started THEN "loop" ELSE "idle"]
    /\ attempts = [r \in Requests |-> 0]
    /\ current_prompt = [r \in Requests |-> request[r].prompt]
    /\ previous_error = [r \in Requests |-> None]
    /\ generated_code = [r \in Requests |-> None]
    /\ temp_file_path = [r \in Requests |-> NoFile]
    /\ result = [r \in Requests |-> NoProcess]
    /\ execution_result = [r \in Requests |-> NoOutcome]
    /\ response = [r \in Requests |-> NoResult]
    /\ files = [n \in Names |-> Absent]
    /\ genCalls = [r \in Requests |-> 0]
    /\ execCalls = [r \in Requests |-> 0]
    /\ lastErr = [r \in Requests |-> None]
    /\ lastText = [r \in Requests |-> Raised]
    /\ lastSent = [r \in Requests |-> None]
    /\ olderErrs = [r \in Requests |-> {}]
    /\ created = [r \in Requests |-> NoFile]
    /\ failure = [r \in Requests |-> "none"]
    /\ execReturns = [r \in Requests |-> 0]
    /\ genReturns = [r \in Requests |-> 0]
    /\ lastCode = [r \in Requests |-> None]

\* one request, with any max_attempts the schema admits
Init ==
    /\ InitWith({1}, (-1)..MaxAttempts, FullEnv)
    /\ text = <<>> /\ cleaned = None /\ again = None
    /\ \A r \in Requests \ {1} : request[r].max_attempts = 1

\* every slot holds a request; they run side by side
InitConc ==
    /\ InitWith(Requests, 1..ConcAttempts, ConcEnv)
    /\ text = <<>> /\ cleaned = None /\ again = None

(***************************************************************************)
(* execute_prompt: the while loop                                          *)
(***************************************************************************)
\* the loop condition holds: attempts += 1, the try block is entered and
\* generate_python_code is called; the call ends with one of the Generate
\* steps
LoopEnter(r) ==
    /\ pc[r] = "loop"
    /\ LoopCond(attempts[r], request[r].max_attempts)
    /\ attempts' = [attempts EXCEPT ![r] = @ + 1]
    /\ created' = [created EXCEPT ![r] = NoFile]
    /\ failure' = [failure EXCEPT ![r] = "none"]
    /\ pc' = [pc EXCEPT ![r] = "gen"]
    /\ UNCHANGED <<current_prompt, previous_error, generated_code,
                   temp_file_path, result, execution_result, files,
                   execReturns, response, history, fixed>>

\* the loop condition fails: the failure result is returned
LoopExit(r) ==
    /\ pc[r] = "loop"
    /\ ~LoopCond(attempts[r], request[r].max_attempts)
    /\ response' = [response EXCEPT ![r] =
           FailureResult(generated_code[r], previous_error[r], attempts[r],
                         request[r].max_attempts)]
    /\ pc' = [pc EXCEPT ![r] = "done"]
    /\ UNCHANGED <<locals, runner, history, fixed>>

\* the error text err of the current attempt is recorded
RecordError(r, err) ==
    /\ lastErr' = [lastErr EXCEPT ![r] = err]
    /\ olderErrs' = [olderErrs EXCEPT ![r] =
           IF lastErr[r] = None THEN @ ELSE @ \cup {lastErr[r]}]

\* an except branch that raises the exception again
Handler_Reraises(r, e) ==
    /\ pc' = [pc EXCEPT ![r] = "raised"]
    /\ UNCHANGED <<previous_error, current_prompt>>

\* an except branch that falls through to the execution
Handler_ThenExecute(r, e) ==
    /\ previous_error' = [previous_error EXCEPT ![r] = HandlerError(e)]
    /\ current_prompt' = [current_prompt EXCEPT ![r] =
           NextPrompt(request[r].prompt, current_prompt[r], HandlerError(e))]
    /\ pc' = [pc EXCEPT ![r] = "exec_create"]

\* the exception e is raised inside the try block of the loop: the except
\* branch takes it, or it leaves execute_prompt
Handler(r, e) ==
    IF Caught(e)
    THEN /\ previous_error' = [previous_error EXCEPT ![r] = HandlerError(e)]
         /\ current_prompt' = [current_prompt EXCEPT ![r] =
                NextPrompt(request[r].prompt, current_prompt[r], HandlerError(e))]
         /\ pc' = [pc EXCEPT ![r] = "loop"]
    ELSE /\ pc' = [pc EXCEPT ![r] = "raised"]
         /\ UNCHANGED <<previous_error, current_prompt>>

\* generate_python_code raises because no key is configured
GenerateNoKey(r) ==
    /\ pc[r] = "gen"
    /\ ~GEMINI_API_KEY
    /\ Handler(r, GenerationException(NoKeyMessage))
    /\ RecordError(r, str_e(GenerationException(NoKeyMessage)))
    /\ genCalls' = [genCalls EXCEPT ![r] = @ + 1]
    /\ lastText' = [lastText EXCEPT ![r] = Raised]
    /\ UNCHANGED <<attempts, generated_code, runner, response, execCalls,
                   lastSent, returns,
                   fixed>>

\* generate_python_code raises because the service call raised
GenerateServiceError(r) ==
    /\ pc[r] = "gen"
    /\ GEMINI_API_KEY
    /\ \E msg \in ServiceErrors :
         /\ Handler(r, GenerationException(msg))
         /\ RecordError(r, str_e(GenerationException(msg)))
    /\ genCalls' = [genCalls EXCEPT ![r] = @ + 1]
    /\ lastText' = [lastText EXCEPT ![r] = Raised]
    /\ lastSent' = [lastSent EXCEPT ![r] =
           full_prompt(current_prompt[r], previous_error[r])]
    /\ UNCHANGED <<attempts, generated_code, runner, response, execCalls,
                   returns,
                   fixed>>

\* generate_python_code returns the cleaned response text
GenerateReturn(r) ==
    /\ pc[r] = "gen"
    /\ GEMINI_API_KEY
    /\ \E txt \in env.texts :
         /\ generated_code' = [generated_code EXCEPT ![r] =
                clean_generated_code(rawText(txt))]
         /\ lastText' = [lastText EXCEPT ![r] = txt]
         /\ lastCode' = [lastCode EXCEPT ![r] =
                clean_generated_code(rawText(txt))]
    /\ genCalls' = [genCalls EXCEPT ![r] = @ + 1]
    /\ lastSent' = [lastSent EXCEPT ![r] =
           full_prompt(current_prompt[r], previous_error[r])]
    /\ genReturns' = [genReturns EXCEPT ![r] = @ + 1]
    /\ pc' = [pc EXCEPT ![r] = "exec_create"]
    /\ UNCHANGED <<attempts, current_prompt, previous_error, runner,
                   response, execCalls, lastErr, olderErrs, fixed>>

(***************************************************************************)
(* execute_python_code, one action per statement that can fail             *)
(***************************************************************************)
\* the exception e is raised inside the try block of execute_python_code by
\* the statement named kind: an except clause returns an outcome, or the
\* exception reaches the try block of the loop
RunnerRaises(r, e, kind) ==
    /\ failure' = [failure EXCEPT ![r] = kind]
    /\ IF RunnerHandler(e) # Escapes
       THEN /\ execution_result' = [execution_result EXCEPT ![r] = RunnerHandler(e)]
            /\ execReturns' = [execReturns EXCEPT ![r] = @ + 1]
            /\ RecordError(r, RunnerHandler(e).stderr)
            /\ pc' = [pc EXCEPT ![r] = "check"]
            /\ UNCHANGED <<previous_error, current_prompt>>
       ELSE /\ Handler(r, e)
            /\ RecordError(r, str_e(e))
            /\ UNCHANGED <<execution_result, execReturns>>

\* NamedTemporaryFile(delete=False) creates the file and f.write fills it
CreateFile(r) ==
    /\ pc[r] = "exec_create"
    /\ \E n \in FreshNames(files) :
         /\ files' = [files EXCEPT ![n] =
                [owner |-> r, content |-> generated_code[r]]]
         /\ temp_file_path' = [temp_file_path EXCEPT ![r] = n]
         /\ created' = [created EXCEPT ![r] = n]
    /\ execCalls' = [execCalls EXCEPT ![r] = @ + 1]
    /\ pc' = [pc EXCEPT ![r] = "exec_run"]
    /\ UNCHANGED <<locals, result, execution_result, failure, execReturns,
                   response, genCalls, lastErr, lastText, lastSent, olderErrs,
                   returns,
                   fixed>>

\* NamedTemporaryFile raises: no file exists
CreateFail(r) ==
    /\ pc[r] = "exec_create"
    /\ \E msg \in CreateErrors :
         RunnerRaises(r, LibraryException("OSError", msg), "create")
    /\ execCalls' = [execCalls EXCEPT ![r] = @ + 1]
    /\ UNCHANGED <<attempts, generated_code, temp_file_path, result, files,
                   created, response, genCalls, lastText, lastSent, returns,
                   fixed>>

\* the file is created and f.write raises: the with block closes the file,
\* which stays (delete=False)
WriteFail(r) ==
    /\ pc[r] = "exec_create"
    /\ \E n \in FreshNames(files) :
         /\ files' = [files EXCEPT ![n] = [owner |-> r, content |-> <<>>]]
         /\ created' = [created EXCEPT ![r] = n]
    /\ \E msg \in CreateErrors :
         RunnerRaises(r, LibraryException("OSError", msg), "write")
    /\ execCalls' = [execCalls EXCEPT ![r] = @ + 1]
    /\ UNCHANGED <<attempts, generated_code, temp_file_path, result, response,
                   genCalls, lastText, lastSent, returns,
                   fixed>>

\* subprocess.run returns: the child ran the file's content to its end
RunComplete(r) ==
    /\ pc[r] = "exec_run"
    /\ \E res \in ChildResults(files[temp_file_path[r]], env) :
         result' = [result EXCEPT ![r] = res]
    /\ pc' = [pc EXCEPT ![r] = "exec_unlink"]
    /\ UNCHANGED <<locals, temp_file_path, execution_result, files, created,
                   failure, execReturns, response, history, fixed>>

\* subprocess.run raises TimeoutExpired after 30 seconds
RunTimeout(r) ==
    /\ pc[r] = "exec_run"
    /\ RunnerRaises(r, LibraryException("TimeoutExpired", <<"timed out">>),
                    "timeout")
    /\ temp_file_path' = [temp_file_path EXCEPT ![r] = NoFile]
    /\ UNCHANGED <<attempts, generated_code, result, files, created, response,
                   genCalls, execCalls, lastText, lastSent, returns,
                   fixed>>

\* subprocess.run raises another exception (no interpreter on PATH)
RunLaunchFail(r) ==
    /\ pc[r] = "exec_run"
    /\ \E msg \in LaunchErrors :
         RunnerRaises(r, LibraryException("OSError", msg), "launch")
    /\ temp_file_path' = [temp_file_path EXCEPT ![r] = NoFile]
    /\ UNCHANGED <<attempts, generated_code, result, files, created, response,
                   genCalls, execCalls, lastText, lastSent, returns,
                   fixed>>

\* os.unlink removes the file and the outcome of the child is returned
Unlink(r) ==
    /\ pc[r] = "exec_unlink"
    /\ files[temp_file_path[r]] # Absent
    /\ files' = [files EXCEPT ![temp_file_path[r]] = Absent]
    /\ execution_result' = [execution_result EXCEPT ![r] =
           CompletedOutcome(result[r])]
    /\ execReturns' = [execReturns EXCEPT ![r] = @ + 1]
    /\ RecordError(r, result[r].stderr)
    /\ temp_file_path' = [temp_file_path EXCEPT ![r] = NoFile]
    /\ pc' = [pc EXCEPT ![r] = "check"]
    /\ UNCHANGED <<locals, result, created, failure, response, genCalls,
                   execCalls, lastText, lastSent, returns,
                   fixed>>

\* os.unlink raises (the file is gone, or may not be removed)
UnlinkFail(r) ==
    /\ pc[r] = "exec_unlink"
    /\ \E msg \in UnlinkErrors :
         RunnerRaises(r, LibraryException("OSError", msg), "unlink")
    /\ temp_file_path' = [temp_file_path EXCEPT ![r] = NoFile]
    /\ UNCHANGED <<attempts, generated_code, result, files, created, response,
                   genCalls, execCalls, lastText, lastSent, returns,
                   fixed>>

(***************************************************************************)
(* execute_prompt: the outcome of the attempt                              *)
(***************************************************************************)
\* a success branch that builds the result and goes on with the loop
CheckSuccess_KeepsLooping(r) ==
    /\ pc[r] = "check"
    /\ execution_result[r].success
    /\ response' = [response EXCEPT ![r] =
           SuccessResult(generated_code[r], execution_result[r], attempts[r])]
    /\ pc' = [pc EXCEPT ![r] = "loop"]
    /\ UNCHANGED <<locals, runner, history, fixed>>

\* if execution_result["success"]: the success result is returned
CheckSuccess(r) ==
    /\ pc[r] = "check"
    /\ execution_result[r].success
    /\ response' = [response EXCEPT ![r] =
           SuccessResult(generated_code[r], execution_result[r], attempts[r])]
    /\ pc' = [pc EXCEPT ![r] = "done"]
    /\ UNCHANGED <<locals, runner, history, fixed>>

\* else: the stderr of the attempt is kept for the next prompt
CheckFailure(r) ==
    /\ pc[r] = "check"
    /\ ~execution_result[r].success
    /\ previous_error' = [previous_error EXCEPT ![r] =
           FailureError(execution_result[r])]
    /\ current_prompt' = [current_prompt EXCEPT ![r] =
           NextPrompt(request[r].prompt, current_prompt[r],
                      FailureError(execution_result[r]))]
    /\ pc' = [pc EXCEPT ![r] = "loop"]
    /\ UNCHANGED <<attempts, generated_code, runner, response, history, fixed>>

Next ==
    \E r \in Requests :
        \/ LoopEnter(r)
        \/ LoopExit(r)
        \/ GenerateNoKey(r)
        \/ GenerateServiceError(r)
        \/ GenerateReturn(r)
        \/ CreateFile(r)
        \/ CreateFail(r)
        \/ WriteFail(r)
        \/ RunComplete(r)
        \/ RunTimeout(r)
        \/ RunLaunchFail(r)
        \/ Unlink(r)
        \/ UnlinkFail(r)
        \/ CheckSuccess(r)
        \/ CheckFailure(r)

(***************************************************************************)
(* clean_generated_code on its own: a text is drawn when the step begins,  *)
(* cleaned once, and the result cleaned again.                             *)
(***************************************************************************)
\* the pieces the texts are put together from
Pieces ==
    {FENCE, <<BACKQUOTE>>, TAG_PYTHON, <<"P", "y">>, <<"\n">>, <<"x">>, <<" ">>}

RECURSIVE Flatten(_)
Flatten(ps) == IF ps = <<>> THEN <<>> ELSE Head(ps) \o Flatten(Tail(ps))

\* the texts of at most MaxPieces pieces
Texts == {Flatten(ps) : ps \in UNION {[1..n -> Pieces] : n \in 0..MaxPieces}}

service == <<GEMINI_API_KEY, env, request, received, pc, locals, runner,
             response, history>>

InitClean ==
    /\ InitWith({}, {1}, ConcEnv)
    /\ GEMINI_API_KEY
    /\ text \in Texts
    /\ cleaned = None
    /\ again = None

\* clean_generated_code(raw) is called
Clean ==
    /\ cleaned = None
    /\ cleaned' = clean_generated_code(text)
    /\ UNCHANGED <<text, again, service>>

\* the result is handed to clean_generated_code once more
CleanAgain ==
    /\ cleaned # None
    /\ again = None
    /\ again' = clean_generated_code(cleaned)
    /\ UNCHANGED <<text, cleaned, service>>

NextClean == Clean \/ CleanAgain

SpecClean == InitClean /\ [][NextClean]_vars

\* one request at a time
Spec == Init /\ [][Next]_vars

\* two requests side by side
SpecConc == InitConc /\ [][Next]_vars

\* one request whose handler keeps running: every call it makes returns or
\* raises, and the handler goes on after it
InitFair ==
    /\ InitWith({1}, (-1)..MaxAttempts, ConcEnv)
    /\ text = <<>> /\ cleaned = None /\ again = None
    /\ \A r \in Requests \ {1} : request[r].max_attempts = 1

SpecFair == InitFair /\ [][Next]_vars /\ WF_vars(Next)

(***************************************************************************)
(* Properties of the retry loop.                                           *)
(***************************************************************************)
N(r) == received[r].max_attempts

InRunner(r) == pc[r] \in {"exec_run", "exec_unlink"}

\* the source generate_python_code returned in the latest attempt of r
GeneratedNow(r) == clean_generated_code(rawText(lastText[r]))

\* the prompt of the attempt that follows a failure with the error err
PromptAfter(r, err) ==
    received[r].prompt \o <<"\n\nError from previous attempt: ">> \o err

\* C1: a request with max_attempts N >= 1 never makes more than N calls of
\* generate_python_code nor more than N calls of execute_python_code,
\* whatever the outcomes of the calls are.
C1_AtMostNCycles ==
    \A r \in Requests :
        N(r) >= 1 => genCalls[r] <= N(r) /\ execCalls[r] <= N(r)

\* a request that returned after using all of its N >= 2 cycles
C1_Witness ==
    \E r \in Requests :
        /\ pc[r] = "done"
        /\ N(r) >= 2
        /\ genCalls[r] = N(r)
        /\ execCalls[r] = N(r)

\* C2: the loop goes on only after a failed execution, and when the
\* execution of attempt k succeeds the request returns success = true,
\* attempts = k, the source generated in attempt k and, as output, exactly
\* the stdout the child process of attempt k printed.
C2_FirstSuccessResult ==
    \A r \in Requests :
        /\ (pc[r] \notin {"check", "done"} => ~execution_result[r].success)
        /\ (pc[r] = "done" /\ execution_result[r].success =>
               /\ response[r].success = TRUE
               /\ response[r].attempts = genCalls[r]
               /\ response[r].attempts <= N(r)
               /\ response[r].code = GeneratedNow(r)
               /\ response[r].output = result[r].stdout)

\* a request whose second attempt succeeded, with output and with text on
\* stderr as well
C2_Witness ==
    \E r \in Requests :
        /\ pc[r] = "done"
        /\ execution_result[r].success
        /\ genCalls[r] = 2
        /\ result[r].stdout = <<"O1">>
        /\ result[r].stderr = <<"E1">>
        /\ response[r].code = <<"x">>

\* C3: a request with N >= 1 none of whose executions succeeded returns
\* success = false, attempts = N, an empty output and an error text that
\* contains the stderr text or exception message of attempt N.
C3_ExhaustedResult ==
    \A r \in Requests :
        (N(r) >= 1 /\ pc[r] = "done" /\ ~execution_result[r].success) =>
            /\ response[r].success = FALSE
            /\ response[r].attempts = N(r)
            /\ genCalls[r] = N(r)
            /\ response[r].output = <<>>
            /\ contains(response[r].error, lastErr[r])

\* a request that failed three times, the last time with a child that
\* printed on stderr, after earlier attempts failed with another text
C3_Witness ==
    \E r \in Requests :
        /\ pc[r] = "done"
        /\ ~response[r].success
        /\ N(r) = 3
        /\ lastErr[r] = <<"E1">>
        /\ olderErrs[r] # {}
        /\ <<"E1">> \notin olderErrs[r]

\* C4: without a configured key a request makes one generation call and
\* no more.
C4_NoRetryWithoutKey ==
    \A r \in Requests : ~GEMINI_API_KEY => genCalls[r] <= 1

\* C5: an exception of the generation call of attempt i stays inside
\* execute_prompt; the attempt counts, no execution follows in it,
\* previous_error is the message of the exception, the next generation call
\* is given that message, and the request does not end before attempt N.
C5_GenerationErrorRetried ==
    \A r \in Requests :
        /\ pc[r] # "raised"
        /\ (lastText[r] = Raised /\ genCalls[r] >= 1 =>
               /\ pc[r] \in {"loop", "gen", "done"}
               /\ attempts[r] \in {genCalls[r], genCalls[r] + 1}
               /\ (pc[r] = "loop" => attempts[r] = genCalls[r])
               /\ (pc[r] = "done" => attempts[r] = N(r))
               /\ (pc[r] = "gen" /\ attempts[r] = genCalls[r] + 1 =>
                      /\ previous_error[r] = lastErr[r]
                      /\ contains(current_prompt[r], lastErr[r])
                      /\ contains(full_prompt(current_prompt[r], previous_error[r]),
                                  <<"\n\nPrevious error encountered: ">> \o lastErr[r])))

\* the generation call of attempt 2 is about to be made after the service
\* call of attempt 1 raised
C5_Witness ==
    \E r \in Requests :
        /\ pc[r] = "gen"
        /\ attempts[r] = 2
        /\ genCalls[r] = 1
        /\ lastText[r] = Raised
        /\ GEMINI_API_KEY

\* C6: once execute_python_code has returned, the file it created for the
\* attempt does not exist.
C6_ScratchFileDeleted ==
    \A r \in Requests :
        (~InRunner(r) /\ created[r] # NoFile) => files[created[r]] = Absent

\* C7: every call of execute_python_code returns an outcome, and the
\* outcome of a call in which file creation, the write, the launch of the
\* child, the timeout or the deletion failed has success = false and
\* returncode = -1.
C7_RunnerNeverRaises ==
    \A r \in Requests :
        ~InRunner(r) =>
            /\ execReturns[r] = execCalls[r]
            /\ (failure[r] # "none" =>
                   /\ pc[r] # "raised"
                   /\ execution_result[r].success = FALSE
                   /\ execution_result[r].returncode = -1)

\* the runner returned after the launch of the child failed in an attempt
\* that follows a completed run
C7_Witness ==
    \E r \in Requests :
        /\ pc[r] = "check"
        /\ failure[r] = "launch"
        /\ execCalls[r] = 2
        /\ result[r].returncode = 1

\* C8: the generation call of an attempt i > 1 is given the description as
\* it was received followed by the error of attempt i-1, and that error;
\* the prompt sent to the service is built from these two alone, so that no
\* error of an earlier attempt occurs in it unless it is part of the error
\* of attempt i-1; the request is never modified.
C8_OnlyLatestError ==
    \A r \in Requests :
        /\ request[r] = received[r]
        /\ (pc[r] = "gen" /\ attempts[r] > 1 =>
               /\ current_prompt[r] = PromptAfter(r, lastErr[r])
               /\ previous_error[r] = lastErr[r])
        /\ (pc[r] = "exec_create" /\ attempts[r] > 1 =>
               /\ lastSent[r] = full_prompt(PromptAfter(r, lastErr[r]), lastErr[r])
               /\ \A e \in olderErrs[r] :
                      contains(lastSent[r], e) =>
                          contains(PromptAfter(r, lastErr[r]), e))

\* the prompt of attempt 3 was sent after attempts 1 and 2 failed with
\* errors different from each other
C8_Witness ==
    \E r \in Requests :
        /\ pc[r] = "exec_create"
        /\ attempts[r] = 3
        /\ lastErr[r] = <<"E1">>
        /\ olderErrs[r] = {<<"Execution timed out after 30 seconds">>}

\* C9: requests that are inside execute_python_code at the same time hold
\* different files, each the one it created itself, and a file changes only
\* by being deleted by the request that created it.
C9_Isolated ==
    /\ \A r \in Requests :
           InRunner(r) => /\ temp_file_path[r] # NoFile
                          /\ files[temp_file_path[r]].owner = r
    /\ \A r1, r2 \in Requests :
           (r1 # r2 /\ InRunner(r1) /\ InRunner(r2)) =>
               temp_file_path[r1] # temp_file_path[r2]

C9_OwnFileOnly ==
    \A n \in Names :
        (files[n] # Absent /\ files'[n] # files[n]) =>
            /\ files'[n] = Absent
            /\ pc[files[n].owner] = "exec_unlink"
            /\ pc'[files[n].owner] = "check"
            /\ temp_file_path[files[n].owner] = n

C9_ScratchFilesDistinct == [](C9_Isolated) /\ [][C9_OwnFileOnly]_vars

\* two requests hold a file each at the same time, one running its child and
\* the other about to delete its file
C9_Witness ==
    \E r1, r2 \in Requests :
        /\ r1 # r2
        /\ pc[r1] = "exec_run"
        /\ pc[r2] = "exec_unlink"
        /\ files[temp_file_path[r1]].owner = r1
        /\ files[temp_file_path[r2]].owner = r2

\* C10: an attempt whose generation call got an empty response text never
\* ends the request with a success.
C10_EmptyResponseRetried ==
    \A r \in Requests :
        (pc[r] = "done" /\ lastText[r] = <<>>) => ~response[r].success

\* the request r ended in ExhaustedAttempts
Exhausted(r) == pc[r] = "done" /\ ~response[r].success

\* C11 as stated: the code of the ExhaustedAttempts result is the source of
\* the last generation call that returned, and it is empty exactly when no
\* generation call returned.
C11_CodeEmptyIffNoReturn ==
    \A r \in Requests :
        Exhausted(r) =>
            /\ response[r].code = (IF lastCode[r] = None THEN <<>> ELSE lastCode[r])
            /\ (response[r].code = <<>> <=> genReturns[r] = 0)

\* C11 as amended: the code of the ExhaustedAttempts result is the source
\* of the last generation call that returned; it is empty when no generation
\* call returned and also when the last returned source is itself empty.
C11_LastReturnedCode ==
    \A r \in Requests :
        /\ (genReturns[r] = 0 <=> lastCode[r] = None)
        /\ (Exhausted(r) =>
               /\ response[r].code = (IF lastCode[r] = None THEN <<>> ELSE lastCode[r])
               /\ (response[r].code = <<>> <=>
                      (genReturns[r] = 0 \/ lastCode[r] = <<>>)))

\* a request that ended exhausted with the code of an earlier attempt after
\* the generation call of its last attempt raised
C11_Witness ==
    \E r \in Requests :
        /\ Exhausted(r)
        /\ lastText[r] = Raised
        /\ genReturns[r] = 1
        /\ genCalls[r] = 3
        /\ response[r].code = <<"x">>

\* C12: the outcome of a run that exceeded the timeout has success = false,
\* returncode = -1, an empty stdout and the timeout message as stderr; the
\* attempt fails, the message becomes previous_error and is put into the
\* prompt of the next attempt, and the request does not end with it unless
\* it was attempt N.
C12_TimeoutIsFailedAttempt ==
    \A r \in Requests :
        failure[r] = "timeout" =>
            /\ pc[r] \in {"check", "loop", "done"}
            /\ execution_result[r] =
                   [success |-> FALSE, stdout |-> <<>>,
                    stderr |-> <<"Execution timed out after 30 seconds">>,
                    returncode |-> -1]
            /\ (pc[r] \in {"loop", "done"} =>
                   /\ previous_error[r] = <<"Execution timed out after 30 seconds">>
                   /\ current_prompt[r] =
                          PromptAfter(r, <<"Execution timed out after 30 seconds">>)
                   /\ contains(full_prompt(current_prompt[r], previous_error[r]),
                               <<"\n\nPrevious error encountered: ",
                                 "Execution timed out after 30 seconds">>))
            /\ (pc[r] = "done" => ~response[r].success /\ attempts[r] = N(r))

\* the first attempt timed out and the loop is about to start the second
C12_Witness ==
    \E r \in Requests :
        /\ pc[r] = "loop"
        /\ failure[r] = "timeout"
        /\ attempts[r] = 1
        /\ N(r) >= 2

(***************************************************************************)
(* Properties of the fence stripper.                                       *)
(***************************************************************************)
\* the parts of the trimmed text between fence markers
Parts == split(strip(text), FENCE)

\* number of fence markers of the text
Markers == Len(Parts) - 1

\* indices of the fenced (odd-indexed, counted from 0) parts
FencedIndices == {i \in 1..Len(Parts) : i % 2 = 0}

C14_CleanTextUnchanged ==
    (cleaned # None /\ ~contains(text, FENCE)) =>
        /\ cleaned = strip(text)
        /\ (again # None => again = cleaned)

\* a text without fence marker that holds the word python and has
\* whitespace to trim was cleaned twice
C14_Witness ==
    /\ again # None
    /\ ~contains(text, FENCE)
    /\ contains(text, TAG_PYTHON)
    /\ strip(text) # text
    /\ cleaned # <<>>

\* a line that is a language tag and nothing else
TagLine(line) == lower(strip(line)) \in {TAG_PYTHON, TAG_PY}

\* a fenced part without its leading language-tag line, trimmed
ExpectedBlock(block) ==
    LET lines0 == splitlines(block)
        lines == IF lines0 # <<>> /\ TagLine(lines0[1]) THEN Tail(lines0) ELSE lines0
    IN strip(join(lines))

\* C15: for a text with fence markers, the result is the earliest fenced
\* part that has content once a leading language-tag line is dropped and it
\* is trimmed; no line other than a language-tag line is dropped from it.
C15_FirstFencedSegment ==
    LET good == {i \in FencedIndices : ExpectedBlock(Parts[i]) # <<>>}
    IN (cleaned # None /\ Markers > 0 /\ good # {}) =>
           cleaned = ExpectedBlock(Parts[CHOOSE i \in good : \A j \in good : i <= j])

(***************************************************************************)
(* The order and the number of the calls.                                  *)
(***************************************************************************)
\* the execution of the current attempt succeeded and the handler is at or
\* after the test of its outcome
Succeeded(r) == pc[r] \in {"check", "done"} /\ execution_result[r].success

\* C16: once an execution succeeded the loop is over: the request returns
\* the success result with the attempts made so far, and no further call of
\* generate_python_code or execute_python_code is made, also when fewer than
\* max_attempts attempts were used.
C16_StopsOnFirstSuccess ==
    [][\A r \in Requests :
          Succeeded(r) =>
              /\ pc'[r] \in {"check", "done"}
              /\ genCalls'[r] = genCalls[r]
              /\ execCalls'[r] = execCalls[r]
              /\ attempts'[r] = attempts[r]
              /\ pc'[r] = "done" =>
                     /\ response'[r].success
                     /\ response'[r].attempts = attempts[r]]_vars

\* a request that may use MaxAttempts attempts returned after its first one
\* succeeded
C16_Witness ==
    \E r \in Requests :
        /\ pc[r] = "done"
        /\ response[r].success
        /\ N(r) = MaxAttempts
        /\ response[r].attempts = 1
        /\ genCalls[r] = 1
        /\ execCalls[r] = 1

\* C17: whatever integer max_attempts is, a request whose calls all return
\* or raise ends with a result, which is either the success result or the
\* failure result, and the result is never changed afterwards.
C17_Terminates ==
    /\ \A r \in Requests : (pc[r] = "loop") ~> (pc[r] = "done")
    /\ [](\A r \in Requests : pc[r] = "done" =>
             \/ /\ execution_result[r].success
                /\ response[r] = SuccessResult(generated_code[r],
                                     execution_result[r], attempts[r])
             \/ /\ ~execution_result[r].success
                /\ ~LoopCond(attempts[r], N(r))
                /\ response[r] = FailureResult(generated_code[r],
                                     previous_error[r], attempts[r], N(r)))
    /\ [][\A r \in Requests : pc[r] = "done" =>
             pc'[r] = "done" /\ response'[r] = response[r]]_vars

\* a request ended after MaxAttempts attempts whose generation calls all
\* raised
C17_Witness ==
    \E r \in Requests :
        /\ pc[r] = "done"
        /\ N(r) = MaxAttempts
        /\ genCalls[r] = MaxAttempts
        /\ genReturns[r] = 0
        /\ execCalls[r] = 0

\* C18: the calls of a request are made one after the other: the execution
\* of an attempt starts only after the generation call of that attempt
\* returned, an attempt whose generation call raised has no execution, and
\* the generation call of the next attempt starts only when the outcome of
\* the attempt before is known.
C18_Order ==
    \A r \in Requests :
        /\ execReturns[r] <= execCalls[r]
        /\ execCalls[r] <= genReturns[r]
        /\ genReturns[r] <= genCalls[r]
        /\ pc[r] = "gen" =>
               /\ genCalls[r] = attempts[r] - 1
               /\ execReturns[r] = execCalls[r]
        /\ pc[r] = "exec_create" =>
               /\ genCalls[r] = attempts[r]
               /\ lastText[r] # Raised
               /\ execReturns[r] = execCalls[r]
        /\ InRunner(r) =>
               /\ genCalls[r] = attempts[r]
               /\ lastText[r] # Raised
               /\ execCalls[r] = execReturns[r] + 1
        /\ pc[r] = "check" =>
               /\ genCalls[r] = attempts[r]
               /\ lastText[r] # Raised
               /\ execReturns[r] = execCalls[r]

C18_Steps ==
    \A r \in Requests :
        /\ genCalls'[r] # genCalls[r] =>
               /\ pc[r] = "gen"
               /\ genCalls'[r] = genCalls[r] + 1
               /\ execCalls'[r] = execCalls[r]
               /\ IF genReturns'[r] = genReturns[r]
                  THEN lastText'[r] = Raised /\ pc'[r] \in {"loop", "raised"}
                  ELSE lastText'[r] # Raised /\ pc'[r] = "exec_create"
        /\ execCalls'[r] # execCalls[r] =>
               /\ pc[r] = "exec_create"
               /\ execCalls'[r] = execCalls[r] + 1
               /\ genCalls'[r] = genCalls[r]

C18_CallsStrictlyOrdered == [](C18_Order) /\ [][C18_Steps]_vars

\* the second attempt is executing after the generation call of the first
\* attempt raised and that of the second returned
C18_Witness ==
    \E r \in Requests :
        /\ InRunner(r)
        /\ attempts[r] = 2
        /\ genCalls[r] = 2
        /\ genReturns[r] = 1
        /\ execCalls[r] = 1
        /\ execReturns[r] = 0

\* generation calls started so far: those that ended and the one in progress
GenStarted(r) == genCalls[r] + (IF pc[r] = "gen" THEN 1 ELSE 0)

\* the larger of two integers
Max(a, b) == IF a >= b THEN a ELSE b

\* C19: the attempt counter stays within 0..max(N, 0) and equals the number
\* of generation calls started so far, and the attempts value of the
\* returned result, success or failure, is the number of generation calls
\* the request made.
C19_AttemptsCountGenerations ==
    \A r \in Requests :
        /\ 0 <= attempts[r]
        /\ attempts[r] <= Max(N(r), 0)
        /\ attempts[r] = GenStarted(r)
        /\ pc[r] = "done" => response[r].attempts = genCalls[r]

\* a request returned the success result of its second attempt, and could
\* have made a third
C19_Witness ==
    \E r \in Requests :
        /\ pc[r] = "done"
        /\ response[r].success
        /\ response[r].attempts = 2
        /\ genCalls[r] = 2
        /\ N(r) = 3

\* C20: a request with max_attempts <= 0 is served: it makes no call of
\* generate_python_code nor of execute_python_code, and returns the failure
\* result with success = false, attempts = 0, empty code and empty output.
C20_NonPositiveMaxAttempts ==
    \A r \in Requests :
        N(r) <= 0 =>
            /\ pc[r] \in {"idle", "loop", "done"}
            /\ genCalls[r] = 0
            /\ execCalls[r] = 0
            /\ pc[r] = "done" =>
                   /\ response[r].success = FALSE
                   /\ response[r].attempts = 0
                   /\ response[r].code = <<>>
                   /\ response[r].output = <<>>
                   /\ response[r] = FailureResult(None, None, 0, N(r))

\* a request with a negative max_attempts got its result
C20_Witness ==
    \E r \in Requests :
        /\ pc[r] = "done"
        /\ N(r) < 0
        /\ response[r].attempts = 0
        /\ ~response[r].success

====
